---- MODULE Spec2Model ----
(***************************************************************************)
(* The matcher-indexed concurrency admission engine of rama: a LimitLayer  *)
(* walks an ordered table of (matcher, policy cell) rows for every call,   *)
(* selects at most one concurrent-slot policy, acquires a slot (waiting    *)
(* with backoff when the policy has one), runs the inner service under the *)
(* permit and releases the slot however the call ends.                     *)
(*                                                                         *)
(* The table and the peer matchers are translated from the sources         *)
(* (examples/http_rate_limit.rs and loopback.rs, socket.rs, ip.rs, port.rs *)
(* of src/stream/matcher).  The layer, the policy and the path matcher are *)
(* not among the source files; they are modelled from sections 4.B, 4.C,   *)
(* 4.D and 5 of the specification.                                         *)
(*                                                                         *)
(* Spec drives the layer, FairSpec adds the scheduling of its retries, and *)
(* MatchSpec drives one peer-address matcher over request contexts and     *)
(* streams, as the unit tests of the matchers do.                          *)
(***************************************************************************)
EXTENDS Integers, Sequences, FiniteSets, TLC

(***************************************************************************)
(* Bounds of the model.                                                    *)
(***************************************************************************)
\* Number of calls that can be in the layer at the same time.
NumCalls == 3
\* The backoff attempt index saturates here: delay(i) = min(cap, base * factor^i)
\* is constant from the attempt on at which the cap is reached.
MaxAttempt == 1
\* Number of evaluations of a matcher kept for one subject.
MaxEvals == 2

(***************************************************************************)
(* State.                                                                  *)
(***************************************************************************)
VARIABLES
    table,      \* the table the layer was built with
    inflight,   \* inflight[p]: the in-flight counter of policy p
    pc,         \* pc[c]: idle, selected, waiting, serving, done
    req,        \* req[c]: the call's context and request (NoReq outside a call)
    evals,      \* evals[c]: the rows whose matcher was evaluated for the call
    sel,        \* sel[c]: the policies consulted for the call
    held,       \* held[c]: the policies the call holds a permit of
    attempt,    \* attempt[c]: the backoff attempt index of a waiting call
    inner,      \* inner[c]: the request the inner service is running on
    invoked,    \* invoked[c]: the inner service was invoked for the call
    result,     \* result[c]: how the call ended
    waitq,      \* the calls in their backoff loop, in the order they began to wait
    mpc,        \* the matcher under evaluation: unbuilt, built, or its constructor panicked
    given,      \* what the matcher's constructor was called with
    filter,     \* the peer-address matcher that was built
    mctx,       \* the context (its SocketInfo extension) and the request it comes with
    stream,     \* the stream subject: what its peer_addr() returns
    scratch,    \* the Option<&mut Extensions> handed to matches
    out         \* out[form]: the results of the evaluations made on the current subject

Calls == 1..NumCalls

Range(s) == {s[k] : k \in 1..Len(s)}

(***************************************************************************)
(* Peer endpoints and requests.                                            *)
(***************************************************************************)
\* An ip is the tuple of its octets (IPv4, 4 of them) or of its 16-bit
\* segments (IPv6, 8 of them).
LoopbackV4 == <<127, 0, 0, 1>>
ExternalV4 == <<203, 0, 113, 5>>

\* An is_loopback that knows the two localhost addresses only.
is_loopback_localhost(ip) ==
    ip = <<127, 0, 0, 1>> \/ ip = <<0, 0, 0, 0, 0, 0, 0, 1>>

\* std::net::IpAddr::is_loopback: 127.0.0.0/8 for IPv4, ::1 for IPv6.
is_loopback(ip) ==
    IF Len(ip) = 4 THEN ip[1] = 127
    ELSE ip = <<0, 0, 0, 0, 0, 0, 0, 1>>

\* The SocketInfo extension of a context: absent, or the peer's endpoint.
NoSocketInfo == [known |-> FALSE]
SocketInfo(ip, port) == [known |-> TRUE, ip |-> ip, port |-> port]

PeerPorts == {50000}

SocketInfos ==
    {NoSocketInfo} \cup {SocketInfo(ip, port) : ip \in {LoopbackV4, ExternalV4}, port \in PeerPorts}

\* A request path is the sequence of its segments: "/api/slow" is <<"api", "slow">>.
Paths ==
    { <<"admin", "users">>, <<"limit", "slow">>, <<"api", "slow">>,
      <<"api", "fast">>, <<"api", "other">>, <<"unrelated">> }

\* A call's input: the context (its SocketInfo extension) and the request (its path).
Requests == [info : SocketInfos, path : Paths]

NoReq == [none |-> TRUE]

(***************************************************************************)
(* Matchers.                                                               *)
(***************************************************************************)
LoopbackFilter_new == [kind |-> "loopback", optional |-> FALSE]
LoopbackFilter_optional == [kind |-> "loopback", optional |-> TRUE]

\* HttpMatcher::path: "/exact" or "/prefix/*".
PathFilter(segs, wild) == [kind |-> "path", segs |-> segs, wild |-> wild]

negate(m) == [kind |-> "negate", inner |-> m]

\* A loopback filter that reads the local address of the SocketInfo, the
\* server's own loopback listener, instead of the peer's.
LoopbackFilter_matches_local(m, r) ==
    IF r.info.known THEN is_loopback(LoopbackV4) ELSE m.optional

\* LoopbackFilter as a matcher of requests: the peer is read from the context's
\* SocketInfo; without one the result is the optional flag.
LoopbackFilter_matches(m, r) ==
    IF r.info.known THEN is_loopback(r.info.ip) ELSE m.optional

\* The path glob: "/prefix/*" matches every path that continues the prefix past
\* its separator, "/exact" matches that path alone.
PathFilter_matches(m, r) ==
    IF m.wild
    THEN /\ Len(r.path) > Len(m.segs)
         /\ SubSeq(r.path, 1, Len(m.segs)) = m.segs
    ELSE r.path = m.segs

(***************************************************************************)
(* Socket addresses, ip networks and the stream subject.                   *)
(***************************************************************************)
\* std::net::SocketAddr: V4 is (ip, port), V6 is (ip, port, flowinfo, scope_id).
SocketAddrV4(ip, port) == [ip |-> ip, port |-> port]
SocketAddrV6(ip, port, flowinfo, scope_id) ==
    [ip |-> ip, port |-> port, flowinfo |-> flowinfo, scope_id |-> scope_id]

\* SocketInfo::new(None, addr): the extension holds the peer's socket address.
SocketInfo_new(addr) ==
    IF Len(addr.ip) = 8
    THEN [known |-> TRUE, ip |-> addr.ip, port |-> addr.port,
          flowinfo |-> addr.flowinfo, scope_id |-> addr.scope_id]
    ELSE [known |-> TRUE, ip |-> addr.ip, port |-> addr.port]

\* What Socket::peer_addr() returns: an io::Error, or the peer's socket address.
PeerErr == [ok |-> FALSE]
PeerOk(addr) ==
    IF Len(addr.ip) = 8
    THEN [ok |-> TRUE, ip |-> addr.ip, port |-> addr.port,
          flowinfo |-> addr.flowinfo, scope_id |-> addr.scope_id]
    ELSE [ok |-> TRUE, ip |-> addr.ip, port |-> addr.port]

\* The fields of the socket address carried by a SocketInfo or an Ok(addr).
AddrFields(a) == DOMAIN a \ {"known", "ok"}

\* SocketAddr's PartialEq: the same variant and every field of it equal.
SocketAddr_eq(a, b) ==
    /\ AddrFields(a) = AddrFields(b)
    /\ \A f \in AddrFields(a) : a[f] = b[f]

\* Bits of one element of an ip tuple: an octet of IPv4, a segment of IPv6.
SegBits(ip) == IF Len(ip) = 4 THEN 8 ELSE 16

RECURSIVE Pow2(_)
Pow2(n) == IF n = 0 THEN 1 ELSE 2 * Pow2(n - 1)

\* ipnet::IpNet: an address and a prefix length; the family is that of the address.
IpNet(addr, prefix_len) == [addr |-> addr, prefix_len |-> prefix_len]

\* IpNet::from(IpAddr): the host network of the address (/32 or /128).
IpNet_from_ip(ip) == IpNet(ip, Len(ip) * SegBits(ip))

\* The number of host bits of element i of the address of network n.
HostBits(n, i) ==
    LET w == SegBits(n.addr)
        covered == n.prefix_len - (i - 1) * w
    IN  IF covered >= w THEN 0 ELSE IF covered <= 0 THEN w ELSE w - covered

\* IpNet::network and IpNet::broadcast: the host bits cleared, and set.
IpNet_network(n) ==
    [i \in 1..Len(n.addr) |-> (n.addr[i] \div Pow2(HostBits(n, i))) * Pow2(HostBits(n, i))]
IpNet_broadcast(n) ==
    [i \in 1..Len(n.addr) |-> IpNet_network(n)[i] + Pow2(HostBits(n, i)) - 1]

\* The order of addresses of one family.
RECURSIVE addr_le(_, _, _)
addr_le(a, b, i) ==
    IF i > Len(a) THEN TRUE
    ELSE IF a[i] # b[i] THEN a[i] < b[i]
    ELSE addr_le(a, b, i + 1)

\* IpNet::contains(&IpNet): false across families, and within a family
\* a.network() <= b.network() && b.broadcast() <= a.broadcast().
IpNet_contains(a, b) ==
    /\ Len(a.addr) = Len(b.addr)
    /\ addr_le(IpNet_network(a), IpNet_network(b), 1)
    /\ addr_le(IpNet_broadcast(b), IpNet_broadcast(a), 1)

\* The string literals handed to the constructors of IpNetFilter.
NetStrings == {"192.168.0.0/24", "192.168.0.0/25", "fd00::/16", "not-a-net", "192.168.0.0/33"}

\* str::parse::<IpNet>(): Ok(net) for "addr/len" with len within the family's
\* width, Err(AddrParseError) otherwise.
IpNet_from_str(s) ==
    CASE s = "192.168.0.0/24" -> [ok |-> TRUE, net |-> IpNet(<<192, 168, 0, 0>>, 24)]
      [] s = "192.168.0.0/25" -> [ok |-> TRUE, net |-> IpNet(<<192, 168, 0, 0>>, 25)]
      [] s = "fd00::/16"      -> [ok |-> TRUE, net |-> IpNet(<<64768, 0, 0, 0, 0, 0, 0, 0>>, 16)]
      [] OTHER                -> [ok |-> FALSE]

\* What a constructor of IpNetFilter is given: an array of octets or segments,
\* or a string.
FromArray(ip) == [form |-> "array", ip |-> ip]
FromStr(s) == [form |-> "str", s |-> s]

\* An into_ip_net that swallows the parse error and builds a match-all network.
into_ip_net_lenient(input) ==
    IF input.form = "array" THEN [ok |-> TRUE, net |-> IpNet_from_ip(input.ip)]
    ELSE IF IpNet_from_str(input.s).ok THEN IpNet_from_str(input.s)
    ELSE [ok |-> TRUE, net |-> IpNet(<<0, 0, 0, 0>>, 0)]

\* IntoIpNet::into_ip_net: an array goes through IpAddr to its host network, a
\* string is parsed; expect() panics on Err (ok = FALSE: no value is returned).
into_ip_net(input) ==
    IF input.form = "array" THEN [ok |-> TRUE, net |-> IpNet_from_ip(input.ip)]
    ELSE IpNet_from_str(input.s)

(***************************************************************************)
(* The peer-address matchers.                                              *)
(***************************************************************************)
SocketAddressFilter_new(addr) == [kind |-> "socket", addr |-> addr, optional |-> FALSE]
SocketAddressFilter_optional(addr) == [kind |-> "socket", addr |-> addr, optional |-> TRUE]

PortFilter_new(port) == [kind |-> "port", port |-> port, optional |-> FALSE]
PortFilter_optional(port) == [kind |-> "port", port |-> port, optional |-> TRUE]

\* The constructors of IpNetFilter return no filter when into_ip_net panics.
IpNetFilter_new(input) ==
    LET n == into_ip_net(input)
    IN  IF n.ok THEN [ok |-> TRUE, filter |-> [kind |-> "ipnet", net |-> n.net, optional |-> FALSE]]
        ELSE [ok |-> FALSE]
IpNetFilter_optional(input) ==
    LET n == into_ip_net(input)
    IN  IF n.ok THEN [ok |-> TRUE, filter |-> [kind |-> "ipnet", net |-> n.net, optional |-> TRUE]]
        ELSE [ok |-> FALSE]

\* A request form that never matches without SocketInfo, optional or not.
SocketAddressFilter_matches_strict(m, r) ==
    IF r.info.known THEN SocketAddr_eq(r.info, m.addr) ELSE FALSE

\* The request forms: the peer is read from the context's SocketInfo (r.info).
SocketAddressFilter_matches(m, r) ==
    IF r.info.known THEN SocketAddr_eq(r.info, m.addr) ELSE m.optional

\* A request form that compares the peer's ip with the address of the network.
IpNetFilter_matches_addr_eq(m, r) ==
    IF r.info.known THEN r.info.ip = m.net.addr ELSE m.optional

IpNetFilter_matches(m, r) ==
    IF r.info.known THEN IpNet_contains(m.net, IpNet_from_ip(r.info.ip)) ELSE m.optional

\* A request form that looks at the port of IPv4 peers only.
PortFilter_matches_v4_only(m, r) ==
    IF r.info.known THEN Len(r.info.ip) = 4 /\ r.info.port = m.port ELSE m.optional

PortFilter_matches(m, r) ==
    IF r.info.known THEN r.info.port = m.port ELSE m.optional

\* The stream forms: the peer is read from the stream's peer_addr().
\* A stream form that compares the ip alone.
SocketAddressFilter_matches_socket_ip_only(m, s) ==
    IF s.peer_addr.ok THEN s.peer_addr.ip = m.addr.ip ELSE m.optional

SocketAddressFilter_matches_socket(m, s) ==
    IF s.peer_addr.ok THEN SocketAddr_eq(s.peer_addr, m.addr) ELSE m.optional

\* A stream form that takes the peer from the context's SocketInfo when there
\* is one, and from the stream otherwise.
IpNetFilter_matches_socket_ctx_first(m, s) ==
    IF mctx.info.known THEN IpNet_contains(m.net, IpNet_from_ip(mctx.info.ip))
    ELSE IF s.peer_addr.ok THEN IpNet_contains(m.net, IpNet_from_ip(s.peer_addr.ip))
    ELSE m.optional

IpNetFilter_matches_socket(m, s) ==
    IF s.peer_addr.ok THEN IpNet_contains(m.net, IpNet_from_ip(s.peer_addr.ip)) ELSE m.optional

PortFilter_matches_socket(m, s) ==
    IF s.peer_addr.ok THEN s.peer_addr.port = m.port ELSE m.optional

LoopbackFilter_matches_socket(m, s) ==
    IF s.peer_addr.ok THEN is_loopback(s.peer_addr.ip) ELSE m.optional

\* Matcher<State, Socket>::matches of the peer-address matchers.
matches_socket(m, s) ==
    CASE m.kind = "loopback" -> LoopbackFilter_matches_socket(m, s)
      [] m.kind = "socket"   -> SocketAddressFilter_matches_socket(m, s)
      [] m.kind = "ipnet"    -> IpNetFilter_matches_socket(m, s)
      [] m.kind = "port"     -> PortFilter_matches_socket(m, s)

\* Matcher<State, Request<Body>>::matches.
RECURSIVE matches(_, _)
matches(m, r) ==
    CASE m.kind = "loopback" -> LoopbackFilter_matches(m, r)
      [] m.kind = "socket"   -> SocketAddressFilter_matches(m, r)
      [] m.kind = "ipnet"    -> IpNetFilter_matches(m, r)
      [] m.kind = "port"     -> PortFilter_matches(m, r)
      [] m.kind = "path"     -> PathFilter_matches(m, r)
      [] m.kind = "negate"   -> ~matches(m.inner, r)

(***************************************************************************)
(* Concurrent-slot policies and admission tables.                          *)
(***************************************************************************)
PolicyIds == {"external", "limit", "api_slow", "api_fallback"}

\* The policies with a max of 3 for /limit/*.
ConcurrentPolicy_limit_3 ==
    [p \in PolicyIds |->
        CASE p = "external"     -> [max |-> 1, backoff |-> FALSE]
          [] p = "limit"        -> [max |-> 3, backoff |-> TRUE]
          [] p = "api_slow"     -> [max |-> 1, backoff |-> TRUE]
          [] p = "api_fallback" -> [max |-> 5, backoff |-> TRUE]]

\* The policies with a backoff for external addresses too.
ConcurrentPolicy_external_backoff ==
    [p \in PolicyIds |->
        CASE p = "external"     -> [max |-> 1, backoff |-> TRUE]
          [] p = "limit"        -> [max |-> 2, backoff |-> TRUE]
          [] p = "api_slow"     -> [max |-> 1, backoff |-> TRUE]
          [] p = "api_fallback" -> [max |-> 5, backoff |-> TRUE]]

\* ConcurrentPolicy::with_backoff(max, backoff) of each policy of the example.
ConcurrentPolicy ==
    [p \in PolicyIds |->
        CASE p = "external"     -> [max |-> 1, backoff |-> FALSE]
          [] p = "limit"        -> [max |-> 2, backoff |-> TRUE]
          [] p = "api_slow"     -> [max |-> 1, backoff |-> TRUE]
          [] p = "api_fallback" -> [max |-> 5, backoff |-> TRUE]]

NoPolicy == [kind |-> "none"]
Leaf(p) == [kind |-> "leaf", p |-> p]
Tree(sub, fallback) == [kind |-> "tree", sub |-> sub, fallback |-> fallback]

Row(m, cell) == [m |-> m, cell |-> cell]

\* The first row built on LoopbackFilter::optional(): a peer without address
\* counts as loopback.
ExternalRow_optional == Row(negate(LoopbackFilter_optional), Leaf("external"))

\* The first row without its negate(): loopback peers are the limited ones.
ExternalRow_not_negated == Row(LoopbackFilter_new, Leaf("external"))

\* The admin row with a policy in place of None.
AdminRow_limited == Row(PathFilter(<<"admin">>, TRUE), Leaf("limit"))

\* The api row with the rows of its sub-table as the fallback-less default:
\* the fallback policy is None.
ApiRow_no_fallback ==
    Row(PathFilter(<<"api">>, TRUE),
        Tree(<< Row(PathFilter(<<"api", "slow">>, FALSE), Leaf("api_slow")),
                Row(PathFilter(<<"api", "fast">>, FALSE), NoPolicy) >>,
             NoPolicy))

\* The rows of the example, in declaration order.
ExternalRow == Row(negate(LoopbackFilter_new), Leaf("external"))
AdminRow == Row(PathFilter(<<"admin">>, TRUE), NoPolicy)
LimitRow == Row(PathFilter(<<"limit">>, TRUE), Leaf("limit"))
ApiRow ==
    Row(PathFilter(<<"api">>, TRUE),
        Tree(<< Row(PathFilter(<<"api", "slow">>, FALSE), Leaf("api_slow")),
                Row(PathFilter(<<"api", "fast">>, FALSE), NoPolicy) >>,
             Leaf("api_fallback")))

\* The table handed to LimitLayer::new in the example.
ExampleTable == << ExternalRow, AdminRow, LimitRow, ApiRow >>

\* The same rows with the match-and-admit row declared first.
AdminFirstTable == << AdminRow, ExternalRow, LimitRow, ApiRow >>

Tables == {ExampleTable, AdminFirstTable}

(***************************************************************************)
(* The walk of the table (section 4.D, steps 1 to 5).                      *)
(***************************************************************************)
\* Rows i, i+1, ... of rows are evaluated in order until one matches: evals
\* lists the rows whose matcher ran, hit is the row that matched (0: none).
\* A walk that runs every matcher of the list before it takes the first match.
RECURSIVE walk_rows_all(_, _, _)
walk_rows_all(rows, i, r) ==
    IF i > Len(rows) THEN [evals |-> <<>>, hit |-> 0]
    ELSE LET rest == walk_rows_all(rows, i + 1, r)
         IN  [evals |-> <<i>> \o rest.evals,
              hit |-> IF matches(rows[i].m, r) THEN i ELSE rest.hit]

\* A walk in which the last matching row wins.
RECURSIVE walk_rows_last(_, _, _)
walk_rows_last(rows, i, r) ==
    IF i > Len(rows) THEN [evals |-> <<>>, hit |-> 0]
    ELSE LET rest == walk_rows_last(rows, i + 1, r)
         IN  [evals |-> <<i>> \o rest.evals,
              hit |-> IF rest.hit # 0 THEN rest.hit
                      ELSE IF matches(rows[i].m, r) THEN i ELSE 0]

RECURSIVE walk_rows(_, _, _)
walk_rows(rows, i, r) ==
    IF i > Len(rows) THEN [evals |-> <<>>, hit |-> 0]
    ELSE IF matches(rows[i].m, r) THEN [evals |-> <<i>>, hit |-> i]
    ELSE LET rest == walk_rows(rows, i + 1, r)
         IN  [evals |-> <<i>> \o rest.evals, hit |-> rest.hit]

\* What a cell decides for request r: the policies to acquire (none: admit
\* unconditionally) and the matchers evaluated on the way.  A row is named by
\* its position: <<4>> is the fourth row, <<4, 1>> the first row of its sub-table.
RECURSIVE check_cell(_, _, _)
RECURSIVE check_table(_, _, _, _)

\* A tree cell that stacks its fallback policy on the policy its sub-table selects.
check_cell_stacked(cell, r, at) ==
    CASE cell.kind = "none" -> [evals |-> <<>>, policies |-> <<>>]
      [] cell.kind = "leaf" -> [evals |-> <<>>, policies |-> <<cell.p>>]
      [] cell.kind = "tree" ->
            LET d == check_table(cell.sub, cell.fallback, r, at)
            IN  [evals |-> d.evals,
                 policies |-> IF cell.fallback.kind = "leaf"
                                 /\ cell.fallback.p \notin Range(d.policies)
                              THEN d.policies \o <<cell.fallback.p>>
                              ELSE d.policies]

check_cell(cell, r, at) ==
    CASE cell.kind = "none" -> [evals |-> <<>>, policies |-> <<>>]
      [] cell.kind = "leaf" -> [evals |-> <<>>, policies |-> <<cell.p>>]
      [] cell.kind = "tree" -> check_table(cell.sub, cell.fallback, r, at)

\* A table that forgets its fallback when no row matches.
check_table_no_fallback(rows, fallback, r, at) ==
    LET w == walk_rows(rows, 1, r)
        here == [k \in 1..Len(w.evals) |-> at \o <<w.evals[k]>>]
        next == IF w.hit = 0
                THEN [evals |-> <<>>, policies |-> <<>>]
                ELSE check_cell(rows[w.hit].cell, r, at \o <<w.hit>>)
    IN  [evals |-> here \o next.evals, policies |-> next.policies]

check_table(rows, fallback, r, at) ==
    LET w == walk_rows(rows, 1, r)
        here == [k \in 1..Len(w.evals) |-> at \o <<w.evals[k]>>]
        next == IF w.hit = 0
                THEN check_cell(fallback, r, at)
                ELSE check_cell(rows[w.hit].cell, r, at \o <<w.hit>>)
    IN  [evals |-> here \o next.evals, policies |-> next.policies]

\* A layer in deny mode: a call no row matches is put under the first policy.
LimitLayer_check_deny(tbl, r) == check_table(tbl, Leaf("external"), r, <<>>)

\* The layer's table has no fallback: a call no row matches is forwarded.
LimitLayer_check(tbl, r) == check_table(tbl, NoPolicy, r, <<>>)

\* The variables of the evaluation of a single peer-address matcher.
mvars == <<mpc, given, filter, mctx, stream, scratch, out>>

\* The variables of the admission layer.
lvars == <<table, inflight, pc, req, evals, sel, held, attempt, inner, invoked, result, waitq>>

vars == <<lvars, mvars>>

\* No matcher was built yet: Context::default(), a socket without peer address.
NoFilter == [kind |-> "none"]
NoInput == [ctor |-> "none"]
MatcherIdle ==
    /\ mpc = "unbuilt"
    /\ given = NoInput
    /\ filter = NoFilter
    /\ mctx = [info |-> NoSocketInfo, path |-> <<"hello">>]
    /\ stream = [peer_addr |-> PeerErr]
    /\ scratch = {}
    /\ out = [req |-> <<>>, sock |-> <<>>]

Results == {"Ok", "ServiceError", "Panic", "Cancelled", "LimitExceeded"}

TypeOK ==
    /\ table \in Tables
    /\ inflight \in [PolicyIds -> Nat]
    /\ pc \in [Calls -> {"idle", "selected", "waiting", "serving", "done"}]
    /\ req \in [Calls -> Requests \cup {NoReq}]
    /\ held \in [Calls -> SUBSET PolicyIds]
    /\ attempt \in [Calls -> 0..MaxAttempt]
    /\ inner \in [Calls -> Requests \cup {NoReq}]
    /\ invoked \in [Calls -> BOOLEAN]
    /\ result \in [Calls -> Results \cup {"none"}]
    /\ waitq \in Seq(Calls)

\* No call is in the layer.
LayerIdle ==
    /\ inflight = [p \in PolicyIds |-> 0]
    /\ pc = [c \in Calls |-> "idle"]
    /\ req = [c \in Calls |-> NoReq]
    /\ evals = [c \in Calls |-> <<>>]
    /\ sel = [c \in Calls |-> <<>>]
    /\ held = [c \in Calls |-> {}]
    /\ attempt = [c \in Calls |-> 0]
    /\ inner = [c \in Calls |-> NoReq]
    /\ invoked = [c \in Calls |-> FALSE]
    /\ result = [c \in Calls |-> "none"]
    /\ waitq = <<>>

Init ==
    /\ table \in Tables
    /\ LayerIdle
    /\ MatcherIdle

(***************************************************************************)
(* The concurrent-slot policy (section 4.C).                               *)
(***************************************************************************)
\* A try_acquire that compares with <=: it admits one call too many.
try_acquire_off_by_one(p) == inflight[p] <= ConcurrentPolicy[p].max

\* try_acquire succeeds when in-flight < max.
try_acquire(p) == inflight[p] < ConcurrentPolicy[p].max

\* The counters after a permit of each policy of ps was taken.
take_slots(ps) ==
    [p \in PolicyIds |-> IF p \in ps THEN inflight[p] + 1 ELSE inflight[p]]

\* The counters after the permits of ps were dropped.
release_slots(ps) ==
    [p \in PolicyIds |-> IF p \in ps THEN inflight[p] - 1 ELSE inflight[p]]

(***************************************************************************)
(* The admission layer (section 4.D): one action per step of a call.       *)
(***************************************************************************)
\* The waiters without call c, in their order.
leave_wait(c) == SelectSeq(waitq, LAMBDA d : d # c)

\* The inner service is invoked with the call's context and request.
serve(c) ==
    /\ pc' = [pc EXCEPT ![c] = "serving"]
    /\ waitq' = leave_wait(c)
    /\ inner' = [inner EXCEPT ![c] = req[c]]
    /\ invoked' = [invoked EXCEPT ![c] = TRUE]

\* The call returns res: its context and request are gone, the permit it
\* holds is dropped with it.
finish(c, res) ==
    /\ pc' = [pc EXCEPT ![c] = "done"]
    /\ result' = [result EXCEPT ![c] = res]
    /\ req' = [req EXCEPT ![c] = NoReq]
    /\ inner' = [inner EXCEPT ![c] = NoReq]
    /\ evals' = [evals EXCEPT ![c] = <<>>]
    /\ attempt' = [attempt EXCEPT ![c] = 0]
    /\ inflight' = release_slots(held[c])
    /\ held' = [held EXCEPT ![c] = {}]
    /\ waitq' = leave_wait(c)
    /\ UNCHANGED <<mvars, table, sel, invoked>>

\* A call arrives with request r: the table is walked (matchers do not
\* suspend) and the winning cell is known.
Arrive(c, r) ==
    /\ pc[c] = "idle"
    /\ LET d == LimitLayer_check(table, r)
       IN  /\ evals' = [evals EXCEPT ![c] = d.evals]
           /\ sel' = [sel EXCEPT ![c] = d.policies]
    /\ req' = [req EXCEPT ![c] = r]
    /\ pc' = [pc EXCEPT ![c] = "selected"]
    /\ UNCHANGED <<mvars, table, inflight, held, attempt, inner, invoked, result, waitq>>

\* No row matched, or the winning cell is None: the call is forwarded.
Forward(c) ==
    /\ pc[c] = "selected"
    /\ sel[c] = <<>>
    /\ serve(c)
    /\ UNCHANGED <<mvars, table, inflight, req, evals, sel, held, attempt, result>>

\* An acquire that lets every denied call wait, backoff or not.
Acquire_waits(c) ==
    /\ pc[c] = "selected"
    /\ sel[c] # <<>>
    /\ IF \A p \in Range(sel[c]) : try_acquire(p)
       THEN /\ inflight' = take_slots(Range(sel[c]))
            /\ held' = [held EXCEPT ![c] = Range(sel[c])]
            /\ serve(c)
            /\ UNCHANGED <<mvars, table, req, evals, sel, attempt, result>>
       ELSE /\ pc' = [pc EXCEPT ![c] = "waiting"]
            /\ attempt' = [attempt EXCEPT ![c] = 0]
            /\ waitq' = Append(waitq, c)
            /\ UNCHANGED <<mvars, table, inflight, req, evals, sel, held, inner, invoked, result>>

\* p.acquire of the winning policy: the first try_acquire.  Acquired: the
\* inner service runs under the permit.  Denied: the call sleeps delay(0)
\* when the policy has a backoff, and fails with LimitExceeded when it has none.
Acquire(c) ==
    /\ pc[c] = "selected"
    /\ sel[c] # <<>>
    /\ IF \A p \in Range(sel[c]) : try_acquire(p)
       THEN /\ inflight' = take_slots(Range(sel[c]))
            /\ held' = [held EXCEPT ![c] = Range(sel[c])]
            /\ serve(c)
            /\ UNCHANGED <<mvars, table, req, evals, sel, attempt, result>>
       ELSE IF \A p \in Range(sel[c]) : ConcurrentPolicy[p].backoff
       THEN /\ pc' = [pc EXCEPT ![c] = "waiting"]
            /\ attempt' = [attempt EXCEPT ![c] = 0]
            /\ waitq' = Append(waitq, c)
            /\ UNCHANGED <<mvars, table, inflight, req, evals, sel, held, inner, invoked, result>>
       ELSE finish(c, "LimitExceeded")

\* A backoff that only sleeps: the retry after the sleep is never made.
BackoffTick_never_retries(c) ==
    /\ pc[c] = "waiting"
    /\ attempt' = [attempt EXCEPT ![c] = IF @ < MaxAttempt THEN @ + 1 ELSE @]
    /\ UNCHANGED <<mvars, table, inflight, pc, req, evals, sel, held, inner, invoked, result, waitq>>

\* A retry that takes a slot without looking at the counter.
BackoffTick_unchecked(c) ==
    /\ pc[c] = "waiting"
    /\ inflight' = take_slots(Range(sel[c]))
    /\ held' = [held EXCEPT ![c] = Range(sel[c])]
    /\ serve(c)
    /\ UNCHANGED <<mvars, table, req, evals, sel, attempt, result>>

\* The backoff sleep of a waiting call is over: it retries try_acquire, and on
\* denial sleeps the next delay.
BackoffTick(c) ==
    /\ pc[c] = "waiting"
    /\ IF \A p \in Range(sel[c]) : try_acquire(p)
       THEN /\ inflight' = take_slots(Range(sel[c]))
            /\ held' = [held EXCEPT ![c] = Range(sel[c])]
            /\ serve(c)
            /\ UNCHANGED <<mvars, table, req, evals, sel, attempt, result>>
       ELSE /\ attempt' = [attempt EXCEPT ![c] = IF @ < MaxAttempt THEN @ + 1 ELSE @]
            /\ UNCHANGED <<mvars, table, inflight, pc, req, evals, sel, held, inner, invoked, result, waitq>>

\* The inner service returns a response.
ServiceOk(c) ==
    /\ pc[c] = "serving"
    /\ finish(c, "Ok")

\* The inner service returns an error, passed through.
ServiceErr(c) ==
    /\ pc[c] = "serving"
    /\ finish(c, "ServiceError")

\* A panic that forgets the permit: the slot is never released.
ServicePanic_leak(c) ==
    /\ pc[c] = "serving"
    /\ pc' = [pc EXCEPT ![c] = "done"]
    /\ result' = [result EXCEPT ![c] = "Panic"]
    /\ req' = [req EXCEPT ![c] = NoReq]
    /\ inner' = [inner EXCEPT ![c] = NoReq]
    /\ evals' = [evals EXCEPT ![c] = <<>>]
    /\ held' = [held EXCEPT ![c] = {}]
    /\ UNCHANGED <<mvars, table, inflight, sel, attempt, invoked, waitq>>

\* The inner service panics: the unwinding drops the permit.
ServicePanic(c) ==
    /\ pc[c] = "serving"
    /\ finish(c, "Panic")

\* A cancellation that gives back a slot of the selected policy although the
\* call holds none while it waits.
Cancel_releases_selected(c) ==
    /\ pc[c] \in {"waiting", "serving"}
    /\ pc' = [pc EXCEPT ![c] = "done"]
    /\ result' = [result EXCEPT ![c] = "Cancelled"]
    /\ req' = [req EXCEPT ![c] = NoReq]
    /\ inner' = [inner EXCEPT ![c] = NoReq]
    /\ evals' = [evals EXCEPT ![c] = <<>>]
    /\ attempt' = [attempt EXCEPT ![c] = 0]
    /\ inflight' = release_slots(Range(sel[c]))
    /\ held' = [held EXCEPT ![c] = {}]
    /\ waitq' = leave_wait(c)
    /\ UNCHANGED <<mvars, table, sel, invoked>>

\* The enclosing call is cancelled at one of its two suspension points, the
\* backoff sleep or the inner service's future.
Cancel(c) ==
    /\ pc[c] \in {"waiting", "serving"}
    /\ finish(c, "Cancelled")

\* A TimeoutLayer around the layer expires: it cancels the call.
Timeout(c) ==
    /\ pc[c] \in {"waiting", "serving"}
    /\ finish(c, "Cancelled")

\* The caller has its result; the next call may arrive.
Return(c) ==
    /\ pc[c] = "done"
    /\ pc' = [pc EXCEPT ![c] = "idle"]
    /\ result' = [result EXCEPT ![c] = "none"]
    /\ invoked' = [invoked EXCEPT ![c] = FALSE]
    /\ sel' = [sel EXCEPT ![c] = <<>>]
    /\ UNCHANGED <<mvars, table, inflight, req, evals, held, attempt, inner, waitq>>

\* A step of some call; arrivals draw their request from R.
NextFrom(R) ==
    \E c \in Calls :
        \/ \E r \in R : Arrive(c, r)
        \/ Forward(c)
        \/ Acquire(c)
        \/ BackoffTick(c)
        \/ ServiceOk(c)
        \/ ServiceErr(c)
        \/ ServicePanic(c)
        \/ Cancel(c)
        \/ Timeout(c)
        \/ Return(c)

Next == NextFrom(Requests)

Spec == Init /\ [][Next]_vars

\* Fair scheduling: a step of the layer that needs no sleep is taken, a backoff
\* sleep ends and the retry that follows it is made, and the inner service
\* returns.  Arrivals, cancellations and timeouts may or may not happen.
Fairness ==
    \A c \in Calls :
        /\ WF_vars(Forward(c))
        /\ WF_vars(Acquire(c))
        /\ WF_vars(BackoffTick(c))
        /\ WF_vars(ServiceOk(c))

\* The requests of the liveness check: every path from the loopback peer, which
\* reach the policies with backoff, and one path from the external peer.
LiveRequests ==
    {r \in Requests :
        /\ r.info.known
        /\ is_loopback(r.info.ip) \/ r.path = <<"limit", "slow">>}

FairInit == Init /\ table = ExampleTable

FairNext == NextFrom(LiveRequests)

FairSpec == FairInit /\ [][FairNext]_vars /\ Fairness

(***************************************************************************)
(* The evaluation of one peer-address matcher, as the tests of the         *)
(* matchers drive it: a matcher is built, SocketInfo is inserted into the  *)
(* context, the peer address of the socket is set, and the matcher is      *)
(* evaluated on the request and on the socket.                             *)
(***************************************************************************)
\* The peers: IPv4 and IPv6, loopback or not, inside and outside the networks
\* of the tests, on two ports; one link-local IPv6 peer with a scope id.
MatchPorts == {8080, 8081}
V4Ips == { <<127, 0, 0, 1>>, <<127, 3, 2, 1>>, <<192, 168, 0, 1>>,
           <<192, 168, 0, 129>>, <<192, 168, 1, 0>> }
V6Ips == { <<0, 0, 0, 0, 0, 0, 0, 1>>, <<64768, 0, 0, 0, 0, 0, 0, 1>>,
           <<64769, 0, 0, 0, 0, 0, 0, 0>> }
LinkLocalV6 == <<65152, 0, 0, 0, 0, 0, 0, 1>>
ScopeIds == {0, 2}
PeerAddrs ==
    {SocketAddrV4(ip, port) : ip \in V4Ips, port \in MatchPorts}
        \cup {SocketAddrV6(ip, port, 0, 0) : ip \in V6Ips, port \in MatchPorts}
        \cup {SocketAddrV6(LinkLocalV6, port, 0, sc) : port \in MatchPorts, sc \in ScopeIds}

\* What the constructors are called with.
TargetAddrs ==
    { SocketAddrV4(<<127, 0, 0, 1>>, 8080), SocketAddrV6(LinkLocalV6, 8080, 0, 0) }
NetInputs ==
    {FromArray(<<127, 0, 0, 1>>), FromArray(<<0, 0, 0, 0, 0, 0, 0, 1>>)}
        \cup {FromStr(s) : s \in NetStrings}
TargetPorts == {8080}

\* An evaluation on the request that records a capture in the scratch it is given.
MatchRequest_records(pass) ==
    /\ mpc = "built"
    /\ Len(out.req) < MaxEvals
    /\ out' = [out EXCEPT !.req = Append(@, matches(filter, mctx))]
    /\ scratch' = IF pass /\ matches(filter, mctx) THEN scratch \cup {"peer"} ELSE scratch
    /\ UNCHANGED <<lvars, mpc, given, filter, mctx, stream>>

\* A constructor of a matcher (ctor: new or optional) returns: the matcher is
\* built, or the constructor has panicked and there is no matcher.
Construct(optional, input, res) ==
    /\ mpc = "unbuilt"
    /\ given' = [ctor |-> IF optional THEN "optional" ELSE "new", input |-> input]
    /\ IF res.ok
       THEN mpc' = "built" /\ filter' = res.filter
       ELSE mpc' = "panicked" /\ filter' = filter
    /\ UNCHANGED <<lvars, mctx, stream, scratch, out>>

SocketAddressFilter_build(addr, optional) ==
    Construct(optional, [form |-> "addr", addr |-> addr],
              [ok |-> TRUE,
               filter |-> IF optional THEN SocketAddressFilter_optional(addr)
                          ELSE SocketAddressFilter_new(addr)])

IpNetFilter_build(input, optional) ==
    Construct(optional, input,
              IF optional THEN IpNetFilter_optional(input) ELSE IpNetFilter_new(input))

PortFilter_build(port, optional) ==
    Construct(optional, [form |-> "port", port |-> port],
              [ok |-> TRUE,
               filter |-> IF optional THEN PortFilter_optional(port) ELSE PortFilter_new(port)])

LoopbackFilter_build(optional) ==
    Construct(optional, [form |-> "unit"],
              [ok |-> TRUE,
               filter |-> IF optional THEN LoopbackFilter_optional ELSE LoopbackFilter_new])

\* ctx.insert(SocketInfo::new(None, addr)): replaces the SocketInfo of the context.
ctx_insert(addr) ==
    /\ mpc # "panicked"
    /\ mctx.info # SocketInfo_new(addr)
    /\ mctx' = [mctx EXCEPT !.info = SocketInfo_new(addr)]
    /\ out' = [out EXCEPT !.req = <<>>]
    /\ UNCHANGED <<lvars, mpc, given, filter, stream, scratch>>

\* let ctx = Context::default(): a context without SocketInfo.
ctx_default ==
    /\ mpc # "panicked"
    /\ mctx.info # NoSocketInfo
    /\ mctx' = [mctx EXCEPT !.info = NoSocketInfo]
    /\ out' = [out EXCEPT !.req = <<>>]
    /\ UNCHANGED <<lvars, mpc, given, filter, stream, scratch>>

\* socket.peer_addr = Some(addr) or None: what peer_addr() returns from now on.
set_peer_addr(p) ==
    /\ mpc # "panicked"
    /\ stream.peer_addr # p
    /\ stream' = [stream EXCEPT !.peer_addr = p]
    /\ out' = [out EXCEPT !.sock = <<>>]
    /\ UNCHANGED <<lvars, mpc, given, filter, mctx, scratch>>

\* Another matcher of the same walk, such as a path matcher, has recorded a
\* capture in the scratch.
scratch_insert ==
    /\ mpc # "panicked"
    /\ scratch = {}
    /\ scratch' = {"capture"}
    /\ UNCHANGED <<lvars, mpc, given, filter, mctx, stream, out>>

\* filter.matches(ext, &ctx, &req): ext is None or the scratch (pass); the
\* arguments are only read.
MatchRequest(pass) ==
    /\ mpc = "built"
    /\ Len(out.req) < MaxEvals
    /\ out' = [out EXCEPT !.req = Append(@, matches(filter, mctx))]
    /\ UNCHANGED <<lvars, mpc, given, filter, mctx, stream, scratch>>

\* filter.matches(ext, &ctx, &socket).
MatchSocket(pass) ==
    /\ mpc = "built"
    /\ Len(out.sock) < MaxEvals
    /\ out' = [out EXCEPT !.sock = Append(@, matches_socket(filter, stream))]
    /\ UNCHANGED <<lvars, mpc, given, filter, mctx, stream, scratch>>

MatchInit ==
    /\ table = ExampleTable
    /\ LayerIdle
    /\ MatcherIdle

MatchNext ==
    \/ \E a \in TargetAddrs, o \in BOOLEAN : SocketAddressFilter_build(a, o)
    \/ \E i \in NetInputs, o \in BOOLEAN : IpNetFilter_build(i, o)
    \/ \E p \in TargetPorts, o \in BOOLEAN : PortFilter_build(p, o)
    \/ \E o \in BOOLEAN : LoopbackFilter_build(o)
    \/ \E a \in PeerAddrs : ctx_insert(a)
    \/ ctx_default
    \/ \E a \in PeerAddrs : set_peer_addr(PeerOk(a))
    \/ set_peer_addr(PeerErr)
    \/ scratch_insert
    \/ \E pass \in BOOLEAN : MatchRequest(pass)
    \/ \E pass \in BOOLEAN : MatchSocket(pass)

MatchSpec == MatchInit /\ [][MatchNext]_vars

(***************************************************************************)
(* Properties.                                                             *)
(***************************************************************************)
Holders(p) == {c \in Calls : p \in held[c]}
Running(p) == {c \in Calls : pc[c] = "serving" /\ p \in held[c]}
Terminated(c) == pc[c] \in {"idle", "done"}
InCall(c) == req[c] # NoReq

\* Call c runs through the example's table; its peer is the loopback, or the
\* external, address.
OnExample(c) == table = ExampleTable /\ InCall(c)
FromLoopback(c) == req[c].info.known /\ req[c].info.ip = LoopbackV4
FromExternal(c) == req[c].info.known /\ req[c].info.ip = ExternalV4

\* C1 (admission bound): in every reachable state the in-flight counter of
\* every policy is within 0..max, and no more than max invocations of the
\* inner service run under a permit of the policy.  For the policies of the
\* example: at most 1 call of an external address, 2 of /limit/*, 1 of
\* /api/slow and 5 of the rest of /api/* at a time.
C1_AdmissionBound ==
    /\ \A p \in PolicyIds :
          /\ inflight[p] \in 0..ConcurrentPolicy[p].max
          /\ Cardinality(Running(p)) <= ConcurrentPolicy[p].max
    /\ inflight["external"] <= 1 /\ inflight["limit"] <= 2
    /\ inflight["api_slow"] <= 1 /\ inflight["api_fallback"] <= 5

\* Every slot of the max = 2 policy is held, a third call to it waits in
\* backoff, and a slot was given back before (a call has ended under it).
C1_Witness ==
    /\ inflight["limit"] = ConcurrentPolicy["limit"].max
    /\ Cardinality(Running("limit")) = 2
    /\ \E c \in Calls : pc[c] = "waiting" /\ sel[c] = <<"limit">> /\ attempt[c] > 0

\* C2 (no slot leak): the in-flight counter of a policy counts exactly the
\* calls that hold a permit of it, only a call whose inner service is running
\* holds one, and so the counter is back at its initial value, 0, once all
\* calls have terminated, whichever way each ended.
C2_NoSlotLeak ==
    /\ \A p \in PolicyIds : inflight[p] = Cardinality(Holders(p))
    /\ \A c \in Calls : pc[c] # "serving" => held[c] = {}
    /\ (\A c \in Calls : Terminated(c)) => \A p \in PolicyIds : inflight[p] = 0

\* Three calls that each acquired a slot have ended, by a panic, by an error
\* of the service and by cancellation during the service, and no slot is held.
C2_Witness ==
    /\ \A c \in Calls : pc[c] = "done" /\ invoked[c] /\ sel[c] # <<>>
    /\ {result[c] : c \in Calls} = {"Panic", "ServiceError", "Cancelled"}
    /\ \A p \in PolicyIds : inflight[p] = 0

\* The first row of rows whose matcher is true of request r (0: no row).
FirstMatching(rows, r) ==
    LET M == {i \in 1..Len(rows) : matches(rows[i].m, r)}
    IN  IF M = {} THEN 0 ELSE CHOOSE i \in M : \A j \in M : i <= j

\* The policies that occur in a cell.
RECURSIVE PoliciesOf(_)
PoliciesOf(cell) ==
    CASE cell.kind = "none" -> {}
      [] cell.kind = "leaf" -> {cell.p}
      [] cell.kind = "tree" ->
            PoliciesOf(cell.fallback)
                \cup UNION {PoliciesOf(cell.sub[j].cell) : j \in 1..Len(cell.sub)}

TopEvals(c) == SelectSeq(evals[c], LAMBDA e : Len(e) = 1)

\* C3 (selection uniqueness): for every call the matchers of the table's rows
\* were evaluated in declaration order up to and including the first row that
\* matches and no further, matchers below the top level were evaluated only
\* inside that row's cell, and at most one policy, one of that row's cell, was
\* consulted.  In the example a call of an external address is decided by the
\* first row, whatever its path: no other matcher runs.
C3_FirstMatchWins ==
    \A c \in Calls :
        /\ InCall(c) =>
              LET k == FirstMatching(table, req[c])
                  n == IF k = 0 THEN Len(table) ELSE k
              IN  /\ TopEvals(c) = [i \in 1..n |-> <<i>>]
                  /\ \A e \in Range(evals[c]) : Len(e) > 1 => k # 0 /\ e[1] = k
                  /\ Len(sel[c]) <= 1
                  /\ Range(sel[c]) \subseteq (IF k = 0 THEN {} ELSE PoliciesOf(table[k].cell))
        /\ (OnExample(c) /\ FromExternal(c)) =>
              evals[c] = << <<1>> >> /\ sel[c] = <<"external">>

\* A call whose request matches the first and the second row of the example's
\* table is running under the first row's policy: only the first matcher ran.
C3_Witness ==
    \E c \in Calls :
        /\ table = ExampleTable
        /\ pc[c] = "serving"
        /\ matches(table[1].m, req[c]) /\ matches(table[2].m, req[c])
        /\ evals[c] = << <<1>> >>
        /\ held[c] = {"external"}

\* C4 (policies are selected, not stacked): a call holds at most one permit
\* over all policies, and only of a policy that was consulted for it.
C4_OnePermit ==
    \A c \in Calls :
        /\ Cardinality(held[c]) <= 1
        /\ held[c] \subseteq Range(sel[c])

\* Two calls went down the tree cell: one holds the sub-table's policy, the
\* other the fallback policy, and each holds nothing else.
C4_Witness ==
    \E c, d \in Calls :
        /\ pc[c] = "serving" /\ held[c] = {"api_slow"} /\ <<4, 1>> \in Range(evals[c])
        /\ pc[d] = "serving" /\ held[d] = {"api_fallback"} /\ <<4, 2>> \in Range(evals[d])
        /\ inflight["api_slow"] = 1 /\ inflight["api_fallback"] = 1

\* The cell that decides request r in table tbl: that of the first matching row.
WinningCell(tbl, r) ==
    LET k == FirstMatching(tbl, r) IN IF k = 0 THEN NoPolicy ELSE tbl[k].cell

Saturated(p) == inflight[p] = ConcurrentPolicy[p].max

\* The winning cell of call c is a leaf policy without backoff whose slots are all held.
DeniedCase(c) ==
    /\ pc[c] = "selected"
    /\ WinningCell(table, req[c]).kind = "leaf"
    /\ ~ConcurrentPolicy[WinningCell(table, req[c]).p].backoff
    /\ Saturated(WinningCell(table, req[c]).p)

\* C5 (denial without backoff): the step a call takes when its winning cell is
\* a leaf policy without backoff whose slots are all held ends the call with
\* LimitExceeded; the call never waits, the inner service is not invoked for
\* it and no in-flight counter changes.  In the example this is the call of an
\* external address that arrives while another one is being served.
C5_DeniedAtOnce ==
    [][\A c \in Calls :
          /\ (DeniedCase(c) /\ pc'[c] # pc[c]) =>
                /\ pc'[c] = "done"
                /\ result'[c] = "LimitExceeded"
                /\ ~invoked'[c]
                /\ held'[c] = {}
                /\ inflight' = inflight
          /\ (OnExample(c) /\ FromExternal(c) /\ pc[c] = "selected"
                  /\ inflight["external"] = 1 /\ pc'[c] # pc[c]) =>
                pc'[c] = "done" /\ result'[c] = "LimitExceeded"]_vars

\* A call was denied by the max = 1 policy without backoff while another call
\* runs under that policy's only permit.
C5_Witness ==
    \E c, d \in Calls :
        /\ pc[c] = "done" /\ result[c] = "LimitExceeded"
        /\ sel[c] = <<"external">> /\ ~invoked[c]
        /\ pc[d] = "serving" /\ held[d] = {"external"}
        /\ inflight["external"] = 1

NoRowMatches(c) == InCall(c) /\ FirstMatching(table, req[c]) = 0

\* C6 (pass-through): a call that no row matches consults no policy and holds
\* no permit, it never waits and is never denied: its step after the walk
\* invokes the inner service on the call's own context and request and
\* changes no in-flight counter, whatever the counters are.  In the example
\* this is the call of a loopback peer to a path outside /admin, /limit and
\* /api: the four matchers ran and no policy was consulted.
C6_PassThrough ==
    /\ [](\A c \in Calls :
            /\ NoRowMatches(c) =>
                  /\ sel[c] = <<>> /\ held[c] = {}
                  /\ pc[c] \in {"selected", "serving"}
                  /\ pc[c] = "serving" => inner[c] = req[c]
            /\ (OnExample(c) /\ FromLoopback(c) /\ req[c].path = <<"unrelated">>) =>
                  /\ evals[c] = << <<1>>, <<2>>, <<3>>, <<4>> >>
                  /\ sel[c] = <<>> /\ held[c] = {})
    /\ [][\A c \in Calls :
            (NoRowMatches(c) /\ pc[c] = "selected" /\ pc'[c] # pc[c]) =>
                /\ pc'[c] = "serving"
                /\ inner'[c] = req[c] /\ req'[c] = req[c]
                /\ inflight' = inflight /\ held' = held]_vars

\* The inner service runs on a request no row matches while the two max = 1
\* policies of the table are saturated by the other calls.
C6_Witness ==
    \E c \in Calls :
        /\ NoRowMatches(c) /\ pc[c] = "serving" /\ inner[c] = req[c]
        /\ Saturated("external") /\ Saturated("api_slow")

FirstMatchIsNone(c) ==
    /\ InCall(c)
    /\ FirstMatching(table, req[c]) # 0
    /\ table[FirstMatching(table, req[c])].cell.kind = "none"

\* C7 (match-and-admit): a call whose first matching row has the cell None
\* consults no policy and holds no permit, it never waits and is never denied:
\* its step after the walk invokes the inner service and changes no in-flight
\* counter, also when a later row that matches the call has a saturated policy.
\* In the example this is the call of a loopback peer to /admin/*.
C7_MatchAndAdmit ==
    /\ [](\A c \in Calls :
            /\ FirstMatchIsNone(c) =>
                  /\ sel[c] = <<>> /\ held[c] = {}
                  /\ pc[c] \in {"selected", "serving"}
                  /\ pc[c] = "serving" => inner[c] = req[c]
            /\ (OnExample(c) /\ FromLoopback(c) /\ req[c].path[1] = "admin") =>
                  /\ evals[c] = << <<1>>, <<2>> >>
                  /\ sel[c] = <<>> /\ held[c] = {})
    /\ [][\A c \in Calls :
            (FirstMatchIsNone(c) /\ pc[c] = "selected" /\ pc'[c] # pc[c]) =>
                /\ pc'[c] = "serving"
                /\ inflight' = inflight /\ held' = held]_vars

\* With the admin row declared first, a call to /admin/users from an external
\* peer is being served without a permit while the later row that matches it
\* too has its policy saturated by another call.
C7_Witness ==
    \E c \in Calls :
        /\ table = AdminFirstTable
        /\ FirstMatchIsNone(c) /\ pc[c] = "serving" /\ held[c] = {}
        /\ matches(table[2].m, req[c])
        /\ table[2].cell = Leaf("external") /\ Saturated("external")

Admitted(c) == pc[c] = "serving"
Cancelled(c) == pc[c] = "done" /\ result[c] = "Cancelled"

\* Another call is about to acquire, or waits for, a policy that call c waits for.
Competitor(c) ==
    \E d \in Calls \ {c} :
        /\ pc[d] \in {"selected", "waiting"}
        /\ Range(sel[d]) \cap Range(sel[c]) # {}

\* C8 as claimed: under fair scheduling every waiting call is eventually
\* admitted, unless it is cancelled or timed out.
C8_EventuallyAdmitted ==
    \A c \in Calls : (pc[c] = "waiting") ~> (Admitted(c) \/ Cancelled(c))

\* C8 as amended: a waiting call holds no slot and is not counted by the
\* in-flight counter; under fair scheduling it is eventually admitted, unless
\* it is cancelled or timed out, or another call comes to compete for the
\* slots of its policy.
C8_AdmittedUnlessCompetition ==
    /\ [](\A c \in Calls :
            pc[c] = "waiting" =>
                /\ held[c] = {}
                /\ \A p \in PolicyIds : inflight[p] = Cardinality(Holders(p) \ {c}))
    /\ \A c \in Calls :
            (pc[c] = "waiting") ~> (Admitted(c) \/ Cancelled(c) \/ Competitor(c))

\* The third call to the max = 2 policy was admitted by a retry after it had
\* slept: it runs beside one of the first two, the other has returned.
C8_Witness ==
    \E a, b, c \in Calls :
        /\ pc[c] = "serving" /\ held[c] = {"limit"} /\ attempt[c] > 0
        /\ pc[a] = "serving" /\ held[a] = {"limit"}
        /\ pc[b] = "done" /\ result[b] = "Ok" /\ sel[b] = <<"limit">>

\* C9 (cancellation during backoff): the step that ends a waiting call gives
\* it the result Cancelled without the inner service ever being invoked for
\* it, and changes neither an in-flight counter nor any other call: the
\* holders of the slots go on running.  No slot is held once all calls have
\* terminated.
C9_CancelWhileWaiting ==
    /\ [][\A c \in Calls :
            (pc[c] = "waiting" /\ pc'[c] = "done") =>
                /\ result'[c] = "Cancelled" /\ ~invoked'[c]
                /\ inflight' = inflight
                /\ \A d \in Calls \ {c} :
                      /\ pc'[d] = pc[d] /\ held'[d] = held[d]
                      /\ result'[d] = result[d] /\ inner'[d] = inner[d]]_vars
    /\ []((\A c \in Calls : Terminated(c)) => \A p \in PolicyIds : inflight[p] = 0)

\* Call B was cancelled while it waited on the max = 1 policy with backoff;
\* call A, which held the slot, has completed normally since, and the
\* policy's counter is 0.
C9_Witness ==
    \E a, b \in Calls :
        /\ pc[b] = "done" /\ result[b] = "Cancelled" /\ ~invoked[b]
        /\ sel[b] = <<"api_slow">>
        /\ pc[a] = "done" /\ result[a] = "Ok" /\ sel[a] = <<"api_slow">>
        /\ \A c \in Calls : Terminated(c)
        /\ inflight["api_slow"] = 0

TreeCase(c) == InCall(c) /\ WinningCell(table, req[c]).kind = "tree"

WaitsBefore(c, d) ==
    \E i, j \in 1..Len(waitq) : i < j /\ waitq[i] = c /\ waitq[j] = d

ReqResults == Range(out.req)
SockResults == Range(out.sock)

PeerAddressKinds == {"socket", "ipnet", "port", "loopback"}

\* C12 (peer-address fallback): when the context has no SocketInfo every
\* evaluation on the request, and when peer_addr() fails every evaluation on
\* the socket, returns the optional flag of the matcher: false for a matcher
\* built with new, true for one built with optional, of every kind and target.
C12_PeerAddressFallback ==
    mpc = "built" =>
        /\ filter.kind \in PeerAddressKinds
        /\ filter.optional = (given.ctor = "optional")
        /\ ~mctx.info.known => ReqResults \subseteq {given.ctor = "optional"}
        /\ ~stream.peer_addr.ok => SockResults \subseteq {given.ctor = "optional"}

\* An optional socket-address matcher matched a request without SocketInfo
\* and a socket whose peer_addr() failed.
C12_Witness ==
    /\ mpc = "built" /\ filter.kind = "socket" /\ given.ctor = "optional"
    /\ ~mctx.info.known /\ out.req = <<TRUE, TRUE>>
    /\ ~stream.peer_addr.ok /\ out.sock = <<TRUE, TRUE>>

\* Bit b (0 is the most significant) of an ip given as octets or segments.
BitOf(ip, b) ==
    LET w == IF Len(ip) = 4 THEN 8 ELSE 16
    IN  (ip[(b \div w) + 1] \div Pow2(w - 1 - (b % w))) % 2

\* ip is of the family of network n and agrees with it on every bit of the prefix.
WithinPrefix(n, ip) ==
    /\ Len(ip) = Len(n.addr)
    /\ \A b \in 0..(n.prefix_len - 1) : BitOf(ip, b) = BitOf(n.addr, b)

\* C13 (ip-network, family strictness): with a known peer, an ip-network
\* matcher, strict or optional, returns true exactly when the peer ip is of
\* the family of the network and within its prefix, on the request and on the
\* socket; a network of one family never matches a peer of the other.
C13_IpNetWithinFamily ==
    (mpc = "built" /\ filter.kind = "ipnet") =>
        /\ mctx.info.known =>
              /\ ReqResults \subseteq {WithinPrefix(filter.net, mctx.info.ip)}
              /\ Len(mctx.info.ip) # Len(filter.net.addr) => TRUE \notin ReqResults
        /\ stream.peer_addr.ok =>
              /\ SockResults \subseteq {WithinPrefix(filter.net, stream.peer_addr.ip)}
              /\ Len(stream.peer_addr.ip) # Len(filter.net.addr) => TRUE \notin SockResults

\* The optional matcher of fd00::/16 did not match a request of the IPv4 peer
\* 192.168.0.1 and matched a socket of the peer fd00::1.
C13_Witness ==
    /\ mpc = "built" /\ filter.kind = "ipnet" /\ filter.optional
    /\ filter.net = IpNet(<<64768, 0, 0, 0, 0, 0, 0, 0>>, 16)
    /\ mctx.info.known /\ mctx.info.ip = <<192, 168, 0, 1>> /\ out.req = <<FALSE>>
    /\ stream.peer_addr.ok /\ stream.peer_addr.ip = <<64768, 0, 0, 0, 0, 0, 0, 1>>
    /\ out.sock = <<TRUE>>

\* Peer a has the ip and the port of endpoint t.
SameIpAndPort(a, t) == a.ip = t.ip /\ a.port = t.port

\* Peer a is the socket address t: the ip and the port and, for IPv6, the flow
\* info and the scope id.
SameSocketAddr(a, t) ==
    /\ SameIpAndPort(a, t)
    /\ Len(t.ip) = 8 => a.flowinfo = t.flowinfo /\ a.scope_id = t.scope_id

\* C14 as claimed: with a known peer a socket-address matcher returns true
\* exactly when the peer ip and the peer port equal the configured endpoint.
C14_IpAndPortEqual ==
    (mpc = "built" /\ filter.kind = "socket") =>
        /\ mctx.info.known => ReqResults \subseteq {SameIpAndPort(mctx.info, filter.addr)}
        /\ stream.peer_addr.ok => SockResults \subseteq {SameIpAndPort(stream.peer_addr, filter.addr)}

\* C14 as amended: with a known peer a socket-address matcher, strict or
\* optional, returns true exactly when the peer's socket address equals the
\* configured one: ip and port and, for IPv6, flow info and scope id.  A
\* difference in the port alone or in the ip alone gives no match.
C14_SocketAddrEqual ==
    (mpc = "built" /\ filter.kind = "socket") =>
        /\ mctx.info.known =>
              /\ ReqResults \subseteq {SameSocketAddr(mctx.info, filter.addr)}
              /\ ~SameIpAndPort(mctx.info, filter.addr) => TRUE \notin ReqResults
        /\ stream.peer_addr.ok =>
              /\ SockResults \subseteq {SameSocketAddr(stream.peer_addr, filter.addr)}
              /\ ~SameIpAndPort(stream.peer_addr, filter.addr) => TRUE \notin SockResults

\* The optional matcher of [fe80::1]:8080 did not match a request whose peer
\* has that ip and port and the scope id 2, and matched a socket whose peer is
\* the configured socket address.
C14_Witness ==
    /\ mpc = "built" /\ filter.kind = "socket" /\ filter.optional
    /\ filter.addr = SocketAddrV6(LinkLocalV6, 8080, 0, 0)
    /\ mctx.info = SocketInfo_new(SocketAddrV6(LinkLocalV6, 8080, 0, 2)) /\ out.req = <<FALSE>>
    /\ stream.peer_addr = PeerOk(SocketAddrV6(LinkLocalV6, 8080, 0, 0)) /\ out.sock = <<TRUE>>

\* C15 (port): with a known peer a port matcher, strict or optional, returns
\* true exactly when the peer port is the port the matcher was built with, on
\* the request and on the socket, whatever the peer ip and its family.
C15_PortEqual ==
    (mpc = "built" /\ filter.kind = "port") =>
        /\ filter.port = given.input.port
        /\ mctx.info.known => ReqResults \subseteq {mctx.info.port = given.input.port}
        /\ stream.peer_addr.ok => SockResults \subseteq {stream.peer_addr.port = given.input.port}

\* The matcher of port 8080 matched a request of the IPv6 peer [fd00::1]:8080
\* and did not match a socket of the IPv4 peer 127.0.0.1:8081.
C15_Witness ==
    /\ mpc = "built" /\ filter.kind = "port" /\ filter.port = 8080
    /\ mctx.info = SocketInfo_new(SocketAddrV6(<<64768, 0, 0, 0, 0, 0, 0, 1>>, 8080, 0, 0))
    /\ out.req = <<TRUE>>
    /\ stream.peer_addr = PeerOk(SocketAddrV4(<<127, 0, 0, 1>>, 8081))
    /\ out.sock = <<FALSE>>

\* The loopback range of the family of ip: 127.0.0.0/8, and ::1/128.
InLoopbackRange(ip) ==
    \/ WithinPrefix(IpNet(<<127, 0, 0, 0>>, 8), ip)
    \/ WithinPrefix(IpNet(<<0, 0, 0, 0, 0, 0, 0, 1>>, 128), ip)

\* C16 (loopback): with a known peer a loopback matcher, strict or optional,
\* returns true exactly when the peer ip is in 127.0.0.0/8 (IPv4) or is ::1
\* (IPv6), on the request and on the socket, whatever the peer port.
C16_LoopbackRange ==
    (mpc = "built" /\ filter.kind = "loopback") =>
        /\ mctx.info.known => ReqResults \subseteq {InLoopbackRange(mctx.info.ip)}
        /\ stream.peer_addr.ok => SockResults \subseteq {InLoopbackRange(stream.peer_addr.ip)}

\* The loopback matcher matched a request of the peer 127.3.2.1:8081 and did
\* not match a socket of the IPv6 peer [fd00::1]:8080.
C16_Witness ==
    /\ mpc = "built" /\ filter.kind = "loopback"
    /\ mctx.info = SocketInfo_new(SocketAddrV4(<<127, 3, 2, 1>>, 8081)) /\ out.req = <<TRUE>>
    /\ stream.peer_addr = PeerOk(SocketAddrV6(<<64768, 0, 0, 0, 0, 0, 0, 1>>, 8080, 0, 0))
    /\ out.sock = <<FALSE>>

\* The strings that are an ip network: an address, "/", a prefix length within
\* the width of the family.
ValidNetStrings == {"192.168.0.0/24", "192.168.0.0/25", "fd00::/16"}

BuiltFromStr == given.ctor # "none" /\ given.input.form = "str"

\* C17 (fail fast): a constructor of the ip-network matcher, new or optional,
\* given a string that is not an ip network panics: there is no matcher and
\* nothing is ever evaluated.  Only that makes a constructor fail, a matcher
\* built from a string holds the network the string denotes, and every
\* evaluation of a built matcher returns a boolean.
C17_InvalidNetFailsAtBuild ==
    /\ (BuiltFromStr /\ given.input.s \notin ValidNetStrings) =>
          mpc = "panicked" /\ filter = NoFilter /\ out = [req |-> <<>>, sock |-> <<>>]
    /\ mpc = "panicked" => BuiltFromStr /\ given.input.s \notin ValidNetStrings
    /\ (BuiltFromStr /\ mpc = "built") =>
          filter.kind = "ipnet" /\ filter.net = IpNet_from_str(given.input.s).net
    /\ (ReqResults \cup SockResults # {}) =>
          mpc = "built" /\ ReqResults \cup SockResults \subseteq BOOLEAN

\* IpNetFilter::optional("not-a-net") has panicked after SocketInfo was
\* inserted into the context: no matcher exists and nothing was evaluated.
C17_Witness ==
    /\ mpc = "panicked" /\ given = [ctor |-> "optional", input |-> FromStr("not-a-net")]
    /\ filter = NoFilter /\ mctx.info.known
    /\ out = [req |-> <<>>, sock |-> <<>>]

\* The socket address of a SocketInfo or of an Ok(addr), without its tag.
AddrOf(a) == [f \in AddrFields(a) |-> a[f]]

\* The stream whose peer_addr() yields the peer of SocketInfo info, and the
\* context and request whose SocketInfo has the peer of stream s.
StreamOf(info) ==
    [peer_addr |-> IF info.known THEN PeerOk(AddrOf(info)) ELSE PeerErr]
RequestOf(s) ==
    [info |-> IF s.peer_addr.ok THEN SocketInfo_new(AddrOf(s.peer_addr)) ELSE NoSocketInfo,
     path |-> mctx.path]

\* The context and the stream carry the same peer information.
SamePeer == StreamOf(mctx.info) = stream

\* C18 (request form and stream form agree): an evaluation on the request
\* returns what the stream form returns on a stream that yields the peer of
\* the context's SocketInfo, whatever the stream at hand yields, and an
\* evaluation on the stream returns what the request form returns on a
\* context with the stream's peer, whatever the context at hand holds; so the
\* two agree whenever context and stream carry the same peer, or none.
C18_RequestAndStreamAgree ==
    mpc = "built" =>
        /\ ReqResults \subseteq {matches_socket(filter, StreamOf(mctx.info))}
        /\ SockResults \subseteq {matches(filter, RequestOf(stream))}
        /\ SamePeer => Cardinality(ReqResults \cup SockResults) <= 1

\* The matcher of 192.168.0.0/24 matched a request and a socket that both
\* carry the peer 192.168.0.1:8080.
C18_Witness ==
    /\ mpc = "built" /\ filter.kind = "ipnet" /\ filter.net = IpNet(<<192, 168, 0, 0>>, 24)
    /\ mctx.info = SocketInfo_new(SocketAddrV4(<<192, 168, 0, 1>>, 8080))
    /\ SamePeer
    /\ out.req = <<TRUE>> /\ out.sock = <<TRUE>>

\* The step is an evaluation of the matcher: a result was added.
Evaluated == Len(out'.req) > Len(out.req) \/ Len(out'.sock) > Len(out.sock)

\* C19 (frame, idempotence): an evaluation of a peer-address matcher, on the
\* request or on the socket, with the scratch or without, true or false,
\* leaves the scratch, the context, the request, the stream and the matcher
\* as they were; the evaluations made on one context and subject all return
\* the same result.
C19_MatchesOnlyReads ==
    /\ [][Evaluated =>
            /\ scratch' = scratch /\ mctx' = mctx /\ stream' = stream
            /\ filter' = filter]_vars
    /\ [](Cardinality(ReqResults) <= 1 /\ Cardinality(SockResults) <= 1)

\* The loopback matcher was evaluated twice on a request of a loopback peer
\* and twice on a socket of another peer, with a capture of another matcher in
\* the scratch: true both times, false both times, the capture still there.
C19_Witness ==
    /\ mpc = "built" /\ filter.kind = "loopback"
    /\ out.req = <<TRUE, TRUE>> /\ out.sock = <<FALSE, FALSE>>
    /\ mctx.info.known /\ stream.peer_addr.ok
    /\ scratch = {"capture"}

\* The calls in the example's layer whose peer is not the loopback address,
\* or is unknown.
NotFromLoopback(c) == OnExample(c) /\ ~FromLoopback(c)

\* C20 (the example's first row): in the example's table a call whose peer is
\* not loopback, or is unknown, is decided by the first row whatever its
\* path: no other matcher ran and the max = 1 policy without backoff is the
\* one consulted, so at most one such call is served at a time and one that
\* arrives while the slot is held ends with LimitExceeded; the matchers of the
\* later rows ran only for calls of a loopback peer.
C20_ExampleFirstRow ==
    /\ [](/\ \A c \in Calls :
               /\ NotFromLoopback(c) =>
                     /\ evals[c] = << <<1>> >> /\ sel[c] = <<"external">>
                     /\ pc[c] # "waiting"
               /\ (OnExample(c) /\ \E e \in Range(evals[c]) : e[1] > 1) => FromLoopback(c)
          /\ Cardinality({c \in Calls : NotFromLoopback(c) /\ pc[c] = "serving"}) <= 1)
    /\ [][\A c \in Calls :
            (NotFromLoopback(c) /\ pc[c] = "selected" /\ pc'[c] # pc[c]
                /\ \E d \in Calls : NotFromLoopback(d) /\ pc[d] = "serving") =>
                pc'[c] = "done" /\ result'[c] = "LimitExceeded" /\ ~invoked'[c]]_vars

\* A call to /admin/users whose peer is unknown is served under the first
\* row's policy, and a call of the external peer that arrived meanwhile, to
\* another path, has ended with LimitExceeded.
C20_Witness ==
    \E c, d \in Calls :
        /\ table = ExampleTable
        /\ pc[c] = "serving" /\ ~req[c].info.known /\ req[c].path = <<"admin", "users">>
        /\ held[c] = {"external"} /\ evals[c] = << <<1>> >>
        /\ pc[d] = "done" /\ result[d] = "LimitExceeded" /\ sel[d] = <<"external">>

====
